---- MODULE Spec2Model ----
(***************************************************************************)
(* A model of the dft crate: Plan::new (src/src/lib.rs), the complex       *)
(* transform (src/src/complex.rs), the real transform, compose and unpack  *)
(* (src/src/real.rs).                                                      *)
(*                                                                         *)
(* Arithmetic is exact.  With MaxN the largest buffer length and           *)
(* H = MaxN/2, every number the program can produce from integer inputs    *)
(* lies in the field Q(zeta), zeta = exp(i*pi/H), zeta^H = -1, with a      *)
(* power of two as denominator.  A number is [c |-> <<c0..c(H-1)>>, e]     *)
(* and stands for (c0 + c1*zeta + ... + c(H-1)*zeta^(H-1)) / 2^e, kept     *)
(* normalised so that equal numbers are equal records.  A value of the     *)
(* float type T is a number fixed by conjugation; a Complex<T> is any      *)
(* number.                                                                 *)
(***************************************************************************)
EXTENDS Integers, Sequences, FiniteSets, TLC

\* Bounds of the model.
MaxLog == 3        \* buffer lengths range over 0 .. 2^MaxLog
MaxVal == 1        \* input parts range over -MaxVal .. MaxVal
MaxPos == 2        \* impulse inputs have their nonzero entry at an index below MaxPos
MaxCalls == 2      \* at most this many transform calls on one buffer

RECURSIVE Pow2(_)
Pow2(e) == IF e = 0 THEN 1 ELSE 2 * Pow2(e - 1)

MaxN == Pow2(MaxLog)

H == MaxN \div 2

Max(a, b) == IF a >= b THEN a ELSE b

RECURSIVE SumSeq(_, _)
SumSeq(s, n) == IF n = 0 THEN 0 ELSE s[n] + SumSeq(s, n - 1)

(***************************************************************************)
(* Exact numbers.                                                          *)
(***************************************************************************)
\* a function given by a rule, as the tuple of its values
Vec(f) == f @@ <<>>

RECURSIVE Reduce(_, _)
Reduce(c, e) ==
    IF e > 0 /\ \A k \in 1..H : c[k] % 2 = 0
    THEN Reduce(Vec([k \in 1..H |-> c[k] \div 2]), e - 1)
    ELSE [c |-> c, e |-> e]

Norm(c, e) == Reduce(Vec(c), e)

Num(n) == Norm([k \in 1..H |-> IF k = 1 THEN n ELSE 0], 0)

Zero == Num(0)

One == Num(1)

\* zeta^q for q in 0 .. 2H-1
Zetas ==
    Vec([q1 \in 1..(2 * H) |->
            Norm([k \in 1..H |-> IF q1 - 1 < H
                                  THEN (IF k = q1 THEN 1 ELSE 0)
                                  ELSE (IF k = q1 - H THEN -1 ELSE 0)],
                 0)])

\* zeta^p for any integer p
ZetaPow(p) == Zetas[(p % (2 * H)) + 1]

\* a * zeta^p: the coefficients move up p places, those passing zeta^H change sign
MulZeta(a, p) ==
    LET q == p % (2 * H)
    IN  Norm([k \in 1..H |->
                LET src == (k - 1 - q) % (2 * H)
                IN  IF src < H THEN a.c[src + 1] ELSE 0 - a.c[src - H + 1]],
             a.e)

Add(a, b) ==
    LET e  == Max(a.e, b.e)
        fa == Pow2(e - a.e)
        fb == Pow2(e - b.e)
    IN  Norm([k \in 1..H |-> a.c[k] * fa + b.c[k] * fb], e)

Neg(a) == Norm([k \in 1..H |-> 0 - a.c[k]], a.e)

Sub(a, b) == Add(a, Neg(b))

\* product of two polynomials in zeta, reduced by zeta^H = -1
Mul(a, b) ==
    Norm([k \in 1..H |->
            SumSeq(Vec([i \in 1..H |->
                          IF i <= k
                          THEN a.c[i] * b.c[k - i + 1]
                          ELSE 0 - a.c[i] * b.c[k - i + 1 + H]]), H)],
         a.e + b.e)

\* division by 2^d
Shr(a, d) == Norm(a.c, a.e + d)

Half(a) == Shr(a, 1)

\* complex conjugate: zeta^k |-> zeta^(-k) = -zeta^(H-k)
Conj(a) ==
    Norm([k \in 1..H |-> IF k = 1 THEN a.c[1] ELSE 0 - a.c[H - k + 2]], a.e)

I == ZetaPow(H \div 2)

Re(z) == Half(Add(z, Conj(z)))

\* (z - conj z) / (2i)
Im(z) == MulZeta(Half(Sub(z, Conj(z))), 0 - (H \div 2))

\* re + i * im
ComplexNew(re, im) == Add(re, MulZeta(im, H \div 2))

\* Complex::scale(t): both parts multiplied by the real t
Scale(z, t) == Mul(z, t)

\* cos and sin of pi/step, step a power of two dividing H
Cos(step) == Re(ZetaPow(H \div step))

Sin(step) == Im(ZetaPow(H \div step))

RECURSIVE Log2(_)
Log2(n) == IF n <= 1 THEN 0 ELSE 1 + Log2(n \div 2)

\* T::from(n).recip() for a power of two n
Recip(n) == Shr(One, Log2(n))

(***************************************************************************)
(* Plan::new (src/src/lib.rs).  A slot of the MaybeUninit factor storage   *)
(* is a record: w tells whether Plan::new has written it, v is the value,  *)
(* and step, o remember which stage and in-stage offset wrote it.          *)
(***************************************************************************)
Operations == {"Forward", "Backward", "Inverse"}

Uninit == [w |-> FALSE, v |-> Zero, step |-> 0, o |-> 0]

\* n & (n - 1) == 0 without the test for zero
IsPowerOfTwoOrZero(n) == n = 0 \/ Pow2(Log2(n)) = n

IsPowerOfTwo(n) == n > 0 /\ Pow2(Log2(n)) = n

\* the signs of the two directions exchanged
PlanSignSwapped(operation) == IF operation = "Forward" THEN One ELSE Neg(One)

PlanSign(operation) == IF operation = "Forward" THEN Neg(One) ELSE One

\* Complex::new(-two * sine * sine, sign * theta.sin()) with sine = sin(theta/2),
\* theta = pi/step; -2*sin(theta/2)^2 is cos(theta) - 1.
Multiplier(sign, step) == ComplexNew(Sub(Cos(step), One), Mul(sign, Sin(step)))

\* for _ in 0..step { write(i, factor); i += 1; factor = multiplier * factor + factor }
RECURSIVE FillStage(_, _, _, _, _, _)
FillStage(tab, i, factor, multiplier, step, o) ==
    IF o = step
    THEN [tab |-> tab, i |-> i]
    ELSE FillStage([tab EXCEPT ![i + 1] =
                        [w |-> TRUE, v |-> factor, step |-> step, o |-> o]],
                   i + 1, Add(Mul(multiplier, factor), factor),
                   multiplier, step, o + 1)

\* while step < N { ...; step <<= 1 }; r holds the table and the index i
RECURSIVE FillTable(_, _, _, _)
FillTable(r, step, n, sign) ==
    IF step < n
    THEN FillTable(FillStage(r.tab, r.i, One, Multiplier(sign, step), step, 0),
                   2 * step, n, sign)
    ELSE r.tab

BlankTable(n) == Vec([k \in 1..n |-> Uninit])

\* the writes of Plan::new's loop for each operation and each size N: they do
\* not depend on what the storage held before
PlanWrites ==
    [operation \in Operations |->
        Vec([e1 \in 1..(MaxLog + 1) |->
                FillTable([tab |-> BlankTable(Pow2(e1 - 1)), i |-> 0],
                          1, Pow2(e1 - 1), PlanSign(operation))])]

\* the storage after Plan::new has run its loop on it
PlanTable(operation, storage) ==
    LET written == PlanWrites[operation][Log2(Len(storage)) + 1]
    IN  Vec([k \in 1..Len(storage) |->
                IF written[k].w THEN written[k] ELSE storage[k]])

(***************************************************************************)
(* The complex transform (src/src/complex.rs).                             *)
(***************************************************************************)
\* get_unchecked: an index outside the array is recorded in the trace of
\* accesses; the value then read is immaterial to every formula below.
FactorAt(factors, k) == IF k + 1 \in DOMAIN factors THEN factors[k + 1] ELSE Uninit

DataAt(data, i) == IF i + 1 \in DOMAIN data THEN data[i + 1] ELSE Zero

Put(data, i, v) == IF i + 1 \in DOMAIN data THEN [data EXCEPT ![i + 1] = v] ELSE data

\* while j & mask != 0 { j &= !mask; mask >>= 1 }  j |= mask
RECURSIVE Carry(_, _)
Carry(j, mask) ==
    IF mask # 0 /\ (j \div mask) % 2 = 1
    THEN Carry(j - mask, mask \div 2)
    ELSE j + mask

Swap(data, i, j) == [data EXCEPT ![i + 1] = data[j + 1], ![j + 1] = data[i + 1]]

RECURSIVE RearrangeFrom(_, _, _)
RearrangeFrom(data, i, j) ==
    IF i = Len(data)
    THEN data
    ELSE RearrangeFrom(IF j > i THEN Swap(data, i, j) ELSE data,
                       i + 1, Carry(j, Len(data) \div 2))

rearrange(data) == RearrangeFrom(data, 0, 0)

\* product = factors[k] * data[j]; data[j] = data[i] - product;
\* data[i] = data[i] + product
AddProduct(data, i, product) == Put(data, i, Add(DataAt(data, i), product))

Butterfly(data, i, j, product) ==
    AddProduct(Put(data, j, Sub(DataAt(data, i), product)), i, product)

\* while i < N { butterfly on (i, i + step) with factors[k]; i += jump }
RECURSIVE Butterflies(_, _, _, _, _, _)
Butterflies(st, i, k, step, o, factors) ==
    IF i < Len(st.data)
    THEN Butterflies(
             [data  |-> Butterfly(st.data, i, i + step,
                                  Mul(FactorAt(factors, k).v, DataAt(st.data, i + step))),
              reads |-> st.reads \cup
                            {[step |-> step, o |-> o, k |-> k, i |-> i,
                              j |-> i + step, f |-> FactorAt(factors, k)]}],
             i + 2 * step, k, step, o, factors)
    ELSE st

\* for mut i in 0..step { ...; k += 1 }
RECURSIVE Groups(_, _, _, _, _)
Groups(st, o, k, step, factors) ==
    IF o < step
    THEN Groups(Butterflies(st, o, k, step, o, factors), o + 1, k + 1, step, factors)
    ELSE [st |-> st, k |-> k]

\* while step < N { ...; step <<= 1 }; r holds the data, the trace and k
RECURSIVE Stages(_, _, _)
Stages(r, step, factors) ==
    IF step < Len(r.st.data)
    THEN Stages(Groups(r.st, 0, r.k, step, factors), 2 * step, factors)
    ELSE r.st

\* the factor index starting at 1
calculateFromOne(data, factors) ==
    Stages([st |-> [data |-> data, reads |-> {}], k |-> 1], 1, factors)

calculate(data, factors) ==
    Stages([st |-> [data |-> data, reads |-> {}], k |-> 0], 1, factors)

\* the factor n in place of its reciprocal
scaleByN(data, n) == Vec([k \in 1..Len(data) |-> Scale(data[k], Num(n))])

scale(data, n) == Vec([k \in 1..Len(data) |-> Scale(data[k], Recip(n))])

\* Backward scaled as Inverse is
NeedsScaleNotForward(operation) == operation # "Forward"

NeedsScale(operation) == operation = "Inverse"

\* if let Operation::Inverse = plan.operation { scale(self, N) }
ScaleIf(r, operation) ==
    [data  |-> IF NeedsScale(operation) THEN scale(r.data, Len(r.data)) ELSE r.data,
     reads |-> r.reads]

ComplexTransform(data, factors, operation) ==
    ScaleIf(calculate(rearrange(data), factors), operation)

(***************************************************************************)
(* The real transform, compose and unpack (src/src/real.rs).               *)
(***************************************************************************)
\* data[i] = (part1 + product).scale(half);
\* data[j] = (part1 - product).scale(half).conj()
ComposePair(data, i, j, part1, product) ==
    [data EXCEPT ![i + 1] = Scale(Add(part1, product), Recip(2)),
                 ![j + 1] = Conj(Scale(Sub(part1, product), Recip(2)))]

\* part1 = data[i] + data[j].conj(); part2 = data[i] - data[j].conj();
\* product = sign * factors[m - j] * part2
ComposeStep(data, i, j, f, sign) ==
    ComposePair(data, i, j,
                Add(data[i + 1], Conj(data[j + 1])),
                Mul(Mul(sign, f.v), Sub(data[i + 1], Conj(data[j + 1]))))

\* for i in 1..h { j = N - i; ... factors[m - j] ... }
RECURSIVE ComposeLoop(_, _, _, _, _, _)
ComposeLoop(st, i, h, m, sign, factors) ==
    IF i < h
    THEN ComposeLoop(
             [data  |-> ComposeStep(st.data, i, Len(st.data) - i,
                                    FactorAt(factors, m - (Len(st.data) - i)), sign),
              reads |-> st.reads \cup
                            {[i |-> i, idx |-> m - (Len(st.data) - i),
                              f |-> FactorAt(factors, m - (Len(st.data) - i))]}],
             i + 1, h, m, sign, factors)
    ELSE st

\* data[0] never halved
ComposeFirstUnscaled(z, inverse) ==
    ComplexNew(Add(Re(z), Im(z)), Sub(Re(z), Im(z)))

HalveIf(z, inverse) == IF inverse THEN Scale(z, Recip(2)) ELSE z

\* data[0] = Complex::new(re + im, re - im); if inverse { data[0] = data[0].scale(half) }
ComposeFirst(z, inverse) ==
    HalveIf(ComplexNew(Add(Re(z), Im(z)), Sub(Re(z), Im(z))), inverse)

\* data[h] = data[h].conj()
ComposeLast(r, h) ==
    [data |-> [r.data EXCEPT ![h + 1] = Conj(r.data[h + 1])], reads |-> r.reads]

\* compose after its first assignment: if h == 0 { return }, the loop, data[h]
ComposeRest(start, h, factors, inverse) ==
    IF h = 0
    THEN [data |-> start, reads |-> {}]
    ELSE ComposeLast(ComposeLoop([data |-> start, reads |-> {}], 1, h, Len(factors),
                                 IF inverse THEN I ELSE Neg(I), factors),
                     h)

compose(data, factors, inverse) ==
    ComposeRest([data EXCEPT ![1] = ComposeFirst(data[1], inverse)],
                Len(data) \div 2, factors, inverse)

\* from_raw_parts_mut(self.as_mut_ptr() as *mut Complex<T>, N / 2)
AsComplex(xs) ==
    Vec([k \in 1..(Len(xs) \div 2) |-> ComplexNew(xs[2 * k - 1], xs[2 * k])])

\* the same storage read back as N reals
AsReal(d) ==
    Vec([k \in 1..(2 * Len(d)) |->
            IF k % 2 = 1 THEN Re(d[(k + 1) \div 2]) ELSE Im(d[k \div 2])])

\* transmute::<&Plan<T, N>, &Plan<T, {N / 2}>>: the factor reference now has
\* the type &[Complex<T>; N / 2] and covers the first N / 2 slots of the table
PlanView(factors, n) == SubSeq(factors, 1, n \div 2)

\* the buffer and the traces once both halves of the real transform have run
RealResult(d, reads1, creads1) ==
    [data |-> AsReal(d), reads |-> reads1, creads |-> creads1]

Composed(c, reads1) == RealResult(c.data, reads1, c.reads)

Calculated(t, creads1) == RealResult(t.data, t.reads, creads1)

\* Operation::Forward => { data.transform(plan); compose(data, plan.factors, false) }
ComposeAfter(t, view) == Composed(compose(t.data, view, FALSE), t.reads)

\* Backward | Inverse => { compose(data, plan.factors, true); data.transform(plan) }
TransformAfter(c, view, operation) ==
    Calculated(ComplexTransform(c.data, view, operation), c.reads)

RealTransform(xs, factors, operation) ==
    IF Len(xs) \div 2 = 0
    THEN [data |-> xs, reads |-> {}, creads |-> {}]
    ELSE IF operation = "Forward"
         THEN ComposeAfter(ComplexTransform(AsComplex(xs), PlanView(factors, Len(xs)),
                                            operation),
                           PlanView(factors, Len(xs)))
         ELSE TransformAfter(compose(AsComplex(xs), PlanView(factors, Len(xs)), TRUE),
                             PlanView(factors, Len(xs)), operation)

\* a slot of the MaybeUninit output of unpack
Blank == [w |-> FALSE, v |-> Zero]

Written(v) == [w |-> TRUE, v |-> v]

\* for i in 1..h { base.add(i).write(Complex::new(data[2 * i], data[2 * i + 1])) }
RECURSIVE UnpackLow(_, _, _, _)
UnpackLow(out, i, h, data) ==
    IF i < h
    THEN UnpackLow([out EXCEPT ![i + 1] =
                        Written(ComplexNew(data[2 * i + 1], data[2 * i + 2]))],
                   i + 1, h, data)
    ELSE out

\* for i in (h + 1)..N { base.add(i).write(base.add(N - i).read().conj()) }
RECURSIVE UnpackHigh(_, _)
UnpackHigh(st, i) ==
    IF i < Len(st.out)
    THEN LET src == st.out[Len(st.out) - i + 1]
         IN  UnpackHigh([out |-> [st.out EXCEPT ![i + 1] = Written(Conj(src.v))],
                         bad |-> st.bad \/ ~src.w],
                        i + 1)
    ELSE st

\* the mirrored half starting one slot late
unpackLate(data) ==
    LET n == Len(data)
        h == n \div 2
        o0 == [Vec([k \in 1..n |-> Blank]) EXCEPT ![1] = Written(data[1])]
    IN  IF h = 0
        THEN [out |-> o0, bad |-> FALSE]
        ELSE LET o1 == UnpackLow(o0, 1, h, data)
                 o2 == [o1 EXCEPT ![h + 1] = Written(data[2])]
             IN  UnpackHigh([out |-> o2, bad |-> FALSE], h + 2)

\* the body of unpack after its assertion; bad tells whether a slot was read
\* before it was written
unpack(data) ==
    LET n == Len(data)
        h == n \div 2
        o0 == [Vec([k \in 1..n |-> Blank]) EXCEPT ![1] = Written(data[1])]
    IN  IF h = 0
        THEN [out |-> o0, bad |-> FALSE]
        ELSE LET o1 == UnpackLow(o0, 1, h, data)
                 o2 == [o1 EXCEPT ![h + 1] = Written(data[2])]
             IN  UnpackHigh([out |-> o2, bad |-> FALSE], h + 1)

(***************************************************************************)
(* The program: one buffer of N reals or N complex numbers, one factor     *)
(* storage of N slots, and calls of Plan::new, transform and unpack.       *)
(***************************************************************************)
VARIABLES
    kind,      \* "complex": data is [Complex<T>; N]; "real": data is [T; N]
    orig,      \* the buffer as it was before the first call
    data,      \* the buffer
    factors,   \* the MaybeUninit<[Complex<T>; N]> handed to Plan::new
    plan,      \* the operation of the live Plan, "None" when there is none
    hist,      \* the operations of the transform calls made on data so far
    reads,     \* accesses of the butterfly pass of the last transform
    creads,    \* factor reads of compose in the last real transform
    result,    \* the output of the last unpack, with the buffer it was given
    status,    \* "running", or "panicked" after a failed assertion
    failed     \* the call whose assertion failed

vars == <<kind, orig, data, factors, plan, hist, reads, creads, result, status, failed>>

N == Len(orig)

Cx(a, b) == ComplexNew(Num(a), Num(b))

Magnitudes == 1..MaxVal

RealValues == {Num(v) : v \in Magnitudes} \cup {Num(0 - v) : v \in Magnitudes}

\* real and imaginary multiples of the unit
ComplexValues == RealValues \cup {Cx(0, v) : v \in Magnitudes} \cup {Cx(0, 0 - v) : v \in Magnitudes}

\* the buffer of length n holding v at index p and zero elsewhere
Impulse(n, p, v) == Vec([k \in 1..n |-> IF k = p + 1 THEN v ELSE Zero])

Impulses(n, values) ==
    {Vec([k \in 1..n |-> Zero])}
        \cup {Impulse(n, p, v) : p \in {q \in 0..(MaxPos - 1) : q < n}, v \in values}

\* the buffers of the tests, continued to every length:
\* [1, -2, 3, -4, ...] (real_forward_2, real_forward_4), [1, 2, 3, ...]
\* (real.rs tests::unpack) and [1-2i, 3-4i, ...] (complex_forward_1, complex_forward_2)
Alternating(n) == Vec([k \in 1..n |-> Num(IF k % 2 = 1 THEN k ELSE 0 - k)])

Counting(n) == Vec([k \in 1..n |-> Num(k)])

Odds(n) == Vec([k \in 1..n |-> Cx(2 * k - 1, 0 - 2 * k)])

Inputs(k, n) ==
    IF k = "real"
    THEN Impulses(n, RealValues) \cup {Alternating(n), Counting(n)}
    ELSE Impulses(n, ComplexValues) \cup {Odds(n)}

NoResult == [set |-> FALSE, out |-> <<>>, bad |-> FALSE, p |-> <<>>]

Init ==
    /\ kind \in {"complex", "real"}
    /\ \E n \in 0..MaxN : orig \in Inputs(kind, n)
    /\ data = orig
    /\ factors = BlankTable(Len(orig))
    /\ plan = "None"
    /\ hist = <<>>
    /\ reads = {}
    /\ creads = {}
    /\ result = NoResult
    /\ status = "running"
    /\ failed = "none"

\* Plan::new(operation, &mut factors)
PlanNew(operation) ==
    /\ status = "running"
    /\ IF IsPowerOfTwo(N)
       THEN /\ factors' = PlanTable(operation, factors)
            /\ plan' = operation
            /\ UNCHANGED <<status, failed>>
       ELSE /\ status' = "panicked"
            /\ failed' = "Plan::new"
            /\ UNCHANGED <<factors, plan>>
    /\ UNCHANGED <<kind, orig, data, hist, reads, creads, result>>

\* the buffer after a transform call, with the trace of its butterfly pass
Transformed(r) == data' = r.data /\ reads' = r.reads

TransformedReal(r) == Transformed(r) /\ creads' = r.creads

\* result is the output region of unpack, p the buffer it was given
Unpacked(r, p) == result' = [set |-> TRUE, out |-> r.out, bad |-> r.bad, p |-> p]

\* transform(&mut data, &plan) for [Complex<T>; N]
TransformComplex ==
    /\ status = "running"
    /\ kind = "complex"
    /\ plan # "None"
    /\ Len(hist) < MaxCalls
    /\ Transformed(ComplexTransform(data, factors, plan))
    /\ hist' = Append(hist, plan)
    /\ UNCHANGED <<kind, orig, factors, plan, creads, result, status, failed>>

\* transform(&mut data, &plan) for [T; N]; the impl exists only when N / 2 > 0
TransformReal ==
    /\ status = "running"
    /\ kind = "real"
    /\ N \div 2 > 0
    /\ plan # "None"
    /\ Len(hist) < MaxCalls
    /\ TransformedReal(RealTransform(data, factors, plan))
    /\ hist' = Append(hist, plan)
    /\ UNCHANGED <<kind, orig, factors, plan, result, status, failed>>

\* unpack(&data, &mut result)
Unpack ==
    /\ status = "running"
    /\ kind = "real"
    /\ IF IsPowerOfTwo(N)
       THEN /\ Unpacked(unpack(data), data)
            /\ UNCHANGED <<status, failed>>
       ELSE /\ status' = "panicked"
            /\ failed' = "unpack"
            /\ UNCHANGED result
    /\ UNCHANGED <<kind, orig, data, factors, plan, hist, reads, creads>>

Next ==
    \/ \E operation \in Operations : PlanNew(operation)
    \/ TransformComplex
    \/ TransformReal
    \/ Unpack

Spec == Init /\ [][Next]_vars

(***************************************************************************)
(* The discrete Fourier transform by its defining sum.                     *)
(***************************************************************************)
RECURSIVE SumTerms(_, _)
SumTerms(s, n) == IF n = 0 THEN Zero ELSE Add(s[n], SumTerms(s, n - 1))

\* exp(sign * 2*pi*i * p / n) for a power of two n <= MaxN
Root(sign, p, n) == ZetaPow(sign * p * ((2 * H) \div n))

\* X[k] = sum over t of x[t] * exp(sign * 2*pi*i*k*t/n), k = 0..n-1
DFT(xs, sign) ==
    LET n == Len(xs)
    IN  Vec([k \in 1..n |->
                SumTerms(Vec([t \in 1..n |-> Mul(xs[t], Root(sign, (k - 1) * (t - 1), n))]), n)])

Times(xs, c) == Vec([k \in 1..Len(xs) |-> Mul(xs[k], Num(c))])

Values(out) == Vec([k \in 1..Len(out) |-> out[k].v])

PowersOfTwo == {Pow2(e) : e \in 0..MaxLog}

StageSteps(n) == {st \in PowersOfTwo : st < n}

\* the sign of the angle a plan of the given operation is built with
AngleSign(operation) == IF operation = "Forward" THEN 0 - 1 ELSE 1

Last(s) == s[Len(s)]

(***************************************************************************)
(* C1: for a real buffer x of power-of-two length N, 2 <= N <= 8, the      *)
(* Forward real transform followed by unpack yields the N-point DFT of x.  *)
(***************************************************************************)
C1_RealForwardUnpackIsDFT ==
    (/\ kind = "real"
     /\ N \in PowersOfTwo /\ 2 <= N /\ N <= 8
     /\ hist = <<"Forward">>
     /\ result.set /\ result.p = data)
        => Values(result.out) = DFT(orig, 0 - 1)

(***************************************************************************)
(* C2: the Forward complex transform of a buffer of power-of-two length N  *)
(* leaves X[k] = sum of x[n]*exp(-2*pi*i*k*n/N) in natural order; N = 1    *)
(* leaves the buffer unchanged and [1-2i, 3-4i] becomes [4-6i, -2+2i].     *)
(***************************************************************************)
C2_ComplexForwardIsDFT ==
    (kind = "complex" /\ hist = <<"Forward">>)
        => /\ data = DFT(orig, 0 - 1)
           /\ N = 1 => data = orig
           /\ orig = <<Cx(1, -2), Cx(3, -4)>> => data = <<Cx(4, -6), Cx(-2, 2)>>

C2_Witness ==
    /\ kind = "complex" /\ hist = <<"Forward">>
    /\ orig = <<Cx(1, -2), Cx(3, -4)>>
    /\ data = <<Cx(4, -6), Cx(-2, 2)>>

(***************************************************************************)
(* C3: Forward then Inverse on a complex buffer restores the buffer.       *)
(***************************************************************************)
C3_InverseOfForward ==
    (kind = "complex" /\ hist = <<"Forward", "Inverse">>) => data = orig

C3_Witness ==
    /\ kind = "complex" /\ hist = <<"Forward", "Inverse">>
    /\ N = MaxN /\ orig[2] # Zero /\ data = orig

(***************************************************************************)
(* C4: Forward then Backward on a complex buffer leaves N * x; the         *)
(* Backward table has the positive angle sign and only Inverse scales.     *)
(***************************************************************************)
C4_BackwardOfForward ==
    /\ (kind = "complex" /\ hist = <<"Forward", "Backward">>)
          => data = Times(orig, N)
    /\ plan = "Backward"
          => \A k \in 1..N : factors[k].w
                => factors[k].v = Root(1, factors[k].o, 2 * factors[k].step)

C4_Witness ==
    /\ kind = "complex" /\ hist = <<"Forward", "Backward">>
    /\ N = MaxN /\ orig[2] # Zero /\ data = Times(orig, N) /\ data # orig

(***************************************************************************)
(* C5: Forward then Inverse on a real buffer of power-of-two length N >= 2 *)
(* restores the buffer, the two plans sharing one factor storage.          *)
(***************************************************************************)
C5_RealInverseOfForward ==
    (kind = "real" /\ N >= 2 /\ hist = <<"Forward", "Inverse">>) => data = orig

C5_Witness ==
    /\ kind = "real" /\ hist = <<"Forward", "Inverse">>
    /\ N = MaxN /\ orig[2] # Zero /\ data = orig

(***************************************************************************)
(* C6 as stated: Plan::new is the only call with a checked failure; it     *)
(* fails for every N that is not a power of two, before any table entry is *)
(* written and without a Plan; transform and unpack never fail.            *)
(***************************************************************************)
C6_OnlyPlanNewFails ==
    /\ status = "panicked"
          => /\ failed = "Plan::new"
             /\ N \notin PowersOfTwo
             /\ plan = "None"
             /\ \A k \in 1..N : ~factors[k].w
    /\ plan # "None" => N \in PowersOfTwo

(***************************************************************************)
(* C6 amended: Plan::new and unpack are the only calls with a checked      *)
(* failure.  Each fails exactly when N is not a power of two (N = 0        *)
(* included): Plan::new before any table entry is written and without a    *)
(* Plan, unpack before it writes any output.  For a power of two, Plan::new*)
(* returns a Plan carrying the requested operation.  transform never fails.*)
(***************************************************************************)
C6_FailureState ==
    /\ status = "panicked"
          => /\ failed \in {"Plan::new", "unpack"}
             /\ N \notin PowersOfTwo
             /\ plan = "None"
             /\ \A k \in 1..N : ~factors[k].w
             /\ ~result.set
    /\ plan # "None" => N \in PowersOfTwo
    /\ result.set => N \in PowersOfTwo

C6_FailureStep ==
    /\ (status = "running" /\ status' = "panicked")
          => /\ N \notin PowersOfTwo
             /\ failed' \in {"Plan::new", "unpack"}
             /\ UNCHANGED <<data, factors, plan, hist, result>>
    /\ hist' # hist => status' = "running"
    /\ plan' # plan => N \in PowersOfTwo /\ plan' \in Operations /\ status' = "running"
    /\ \A operation \in Operations :
          (PlanNew(operation) /\ N \in PowersOfTwo) => plan' = operation
    /\ result' # result => N \in PowersOfTwo /\ result'.set /\ status' = "running"

C6_ChecksPowerOfTwo == []C6_FailureState /\ [][C6_FailureStep]_vars

C6_Witness == status = "panicked" /\ failed = "unpack" /\ N = 3

C6_WitnessPlan == status = "panicked" /\ failed = "Plan::new" /\ N = 0

(***************************************************************************)
(* C7: unpack of a packed buffer p of power-of-two length N writes every   *)
(* output slot before reading or returning it, leaves p alone, and gives   *)
(* out[0] = (p[0], 0), out[k] = (p[2k], p[2k+1]) for 1 <= k < N/2,         *)
(* out[N/2] = (p[1], 0), out[k] = conj(out[N-k]) for N/2 < k < N.          *)
(***************************************************************************)
C7_UnpackState ==
    result.set =>
        LET p == result.p
            out == Values(result.out)
            h == N \div 2
        IN  /\ Len(out) = N
            /\ \A k \in 1..N : result.out[k].w
            /\ ~result.bad
            /\ out[1] = ComplexNew(p[1], Zero)
            /\ N >= 2 =>
                  /\ \A k \in 1..(h - 1) :
                        out[k + 1] = ComplexNew(p[2 * k + 1], p[2 * k + 2])
                  /\ out[h + 1] = ComplexNew(p[2], Zero)
                  /\ \A k \in (h + 1)..(N - 1) : out[k + 1] = Conj(out[N - k + 1])
                  /\ \A k \in 1..(h - 1) : out[N - k + 1] = Conj(out[k + 1])

C7_UnpackStep == result' # result => data' = data /\ result'.set /\ result'.p = data

C7_Unpack == []C7_UnpackState /\ [][C7_UnpackStep]_vars

C7_Witness ==
    /\ result.set /\ N = 8
    /\ result.p = <<Num(1), Num(2), Num(3), Num(4), Num(5), Num(6), Num(7), Num(8)>>
    /\ Values(result.out) = <<Cx(1, 0), Cx(3, 4), Cx(5, 6), Cx(7, 8),
                              Cx(2, 0), Cx(7, -8), Cx(5, -6), Cx(3, -4)>>

(***************************************************************************)
(* C8: when Plan::new returns a Plan, every one of the N slots of the      *)
(* factor table has been written.                                          *)
(***************************************************************************)
C8_TableFullyWritten ==
    plan # "None" => \A k \in 1..N : factors[k].w

(***************************************************************************)
(* C9: in the butterfly pass of a complex transform of size N, the group   *)
(* with offset o of the stage with the given step reads factor index       *)
(* k = step - 1 + o, the slot Plan::new wrote as the o-th factor of that   *)
(* stage; k <= N - 2, and the data indices i and i + step are below N.     *)
(***************************************************************************)
C9_ButterflyAccesses ==
    (kind = "complex" /\ hist # <<>>) =>
        /\ \A r \in reads :
              /\ r.k = r.step - 1 + r.o
              /\ r.k <= N - 2
              /\ r.f.w /\ r.f.step = r.step /\ r.f.o = r.o
              /\ r.f.v = Root(AngleSign(Last(hist)), r.o, 2 * r.step)
              /\ r.j = r.i + r.step
              /\ 0 <= r.i /\ r.j < N
        /\ {<<r.step, r.o>> : r \in reads}
              = {<<st, o>> \in StageSteps(N) \X (0..(N - 1)) : o < st}

C9_Witness ==
    /\ kind = "complex" /\ N = MaxN /\ hist # <<>>
    /\ \E r \in reads : r.step = N \div 2 /\ r.o = r.step - 1 /\ r.k = N - 2

(***************************************************************************)
(* C10: in the real transform of a buffer of power-of-two length N >= 8,   *)
(* compose at pair index i, 1 <= i < N/4, multiplies by exp(-2*pi*i/N)     *)
(* for Forward and exp(+2*pi*i/N) otherwise: the i-th factor of the stage  *)
(* with step N/2, a written slot of the table.                             *)
(***************************************************************************)
C10_ComposeFactor ==
    (kind = "real" /\ N >= 8 /\ hist # <<>>) =>
        /\ \A r \in creads :
              /\ r.f.w
              /\ r.f.step = N \div 2 /\ r.f.o = r.i
              /\ r.f.v = Root(AngleSign(Last(hist)), r.i, N)
        /\ {r.i : r \in creads} = 1..((N \div 4) - 1)
====
